---- MODULE Spec2Model ----
(***************************************************************************)
(* SceneManager (7-1_FinalProjectMilestones/Source/SceneManager.cpp):      *)
(* texture registry, material list, shader uniforms and the draw calls of  *)
(* one frame.  Floats are written as integers in units of 1/10000.         *)
(***************************************************************************)
EXTENDS Integers, Sequences, FiniteSets, TLC

\* ---- bounds of the exploration ------------------------------------------
MaxPrepare == 2
MaxFailedLoads == 1
MaxDestroy == 1
MaxRepeat == 6
MaxFindTextures == 3
MaxFindPrepares == 2

\* ---- program constants --------------------------------------------------
MaxTextureSlots == 16
NULL == "NULL"
ShaderManager == "ShaderManager"
NoUB == "none"

VARIABLES
    m_pShaderManager,   \* NULL or the shader manager handed to the constructor
    m_basicMeshes,      \* the meshes ShapeMeshes has loaded
    m_loadedTextures,   \* number of registered textures
    m_textureIDs,       \* [0..15 -> [ID, tag]]
    m_objectMaterials,  \* sequence of OBJECT_MATERIAL
    gl,                 \* texture objects, name counter, active unit, bindings
    stbImages,          \* decoded image buffers that have not been freed
    uniforms,           \* shader uniforms written so far: name -> value
    \* what the operation that ran last did (empty when it did none of it):
    shaderLog,          \* its uniform writes and draw calls, in order
    createCalls,        \* its CreateGLTexture calls, in order
    bindLog,            \* the texture units its BindGLTextures activated
    destroyCall,        \* the textures its DestroyGLTextures saw and left
    findCall,           \* the last lookup: its arguments and its result
    lastOp,             \* the operation that ran last
    ub,                 \* NoUB, or the undefined behaviour the program ran into
    prepares, failedLoads, destroys   \* counters that bound the exploration

vars == <<m_pShaderManager, m_basicMeshes, m_loadedTextures, m_textureIDs,
          m_objectMaterials, gl, stbImages, uniforms, shaderLog, createCalls,
          bindLog, destroyCall, findCall, lastOp, ub, prepares, failedLoads,
          destroys>>

\* ---- helpers -------------------------------------------------------------
RECURSIVE Flatten(_)
Flatten(ss) == IF ss = <<>> THEN <<>> ELSE Head(ss) \o Flatten(Tail(ss))

SelectEvents(log, kind) == SelectSeq(log, LAMBDA e : e.op = kind)

\* ---- the texture registry and the graphics API --------------------------
TextureTags == {"ComputerCase", "CRTScreen", "TableTexture"}

\* what stbi_load can hand back: no image, or an image with 1..4 channels
StbChannels == 1..4
NoImage == [decoded |-> FALSE, channels |-> 0]
Images == {NoImage} \cup {[decoded |-> TRUE, channels |-> c] : c \in StbChannels}

World == [count |-> m_loadedTextures, ids |-> m_textureIDs,
          gl |-> gl, images |-> stbImages]

BoundAt(g, unit) == IF unit \in DOMAIN g.units THEN g.units[unit] ELSE 0

\* glGenTextures(1, &name): a fresh texture name, now allocated
glGenTextures(g) ==
    [g EXCEPT !.gen = @ + 1, !.textures = @ \cup {g.gen + 1}]

\* glBindTexture(GL_TEXTURE_2D, name) on the active texture unit
glBindTexture(g, name) ==
    [g EXCEPT !.units = [u \in DOMAIN g.units \cup {g.active} |->
                            IF u = g.active THEN name ELSE g.units[u]]]

\* glActiveTexture(GL_TEXTURE0 + i)
glActiveTexture(g, i) == [g EXCEPT !.active = i]

Snapshot(w) == [count |-> w.count, ids |-> w.ids, textures |-> w.gl.textures,
                bound |-> BoundAt(w.gl, w.gl.active), images |-> w.images]

CallRecord(w, w2, tag, img, ret, returned, gen, format, writeIndex, u) ==
    [w |-> w2, ub |-> u,
     call |-> [tag |-> tag, decoded |-> img.decoded, channels |-> img.channels,
               ret |-> ret, returned |-> returned, gen |-> gen,
               format |-> format, writeIndex |-> writeIndex,
               pre |-> Snapshot(w), post |-> Snapshot(w2)]]

\* the channel counts CreateGLTexture has a glTexImage2D call for
SupportedChannels_Gray(colorChannels) ==
    colorChannels = 1 \/ colorChannels = 3 \/ colorChannels = 4

SupportedChannels(colorChannels) == colorChannels = 3 \/ colorChannels = 4

\* CreateGLTexture(filename, tag) where stbi_load(filename) gives img: the
\* set of outcomes (one, unless the store goes past the end of m_textureIDs)
CreateGLTexture(w, tag, img) ==
    IF ~img.decoded
    THEN {CallRecord(w, w, tag, img, FALSE, TRUE, 0, "none", -1, NoUB)}
    ELSE
      LET loaded    == [w EXCEPT !.images = @ + 1]
          generated == [loaded EXCEPT !.gl = glGenTextures(@)]
          textureID == generated.gl.gen
          bound     == [generated EXCEPT !.gl = glBindTexture(@, textureID)]
          format    == IF img.channels = 3 THEN "GL_RGB8" ELSE "GL_RGBA8"
      IN IF ~SupportedChannels(img.channels)
         THEN {CallRecord(w, bound, tag, img, FALSE, TRUE, textureID, "none", -1, NoUB)}
         ELSE
           LET freed    == [bound EXCEPT !.images = @ - 1]
               unbound  == [freed EXCEPT !.gl = glBindTexture(@, 0)]
               index    == w.count
               stored   == [unbound EXCEPT
                              !.ids[index] = [ID |-> textureID, tag |-> tag],
                              !.count = @ + 1]
           IN IF index \in 0..(MaxTextureSlots - 1)
              THEN {CallRecord(w, stored, tag, img, TRUE, TRUE, textureID,
                               format, index, NoUB)}
              ELSE \* the store is past the end of the array: either it lands
                   \* outside the registry and the call returns, or it faults
                   {CallRecord(w, [unbound EXCEPT !.count = @ + 1], tag, img,
                               TRUE, TRUE, textureID, format, index, "oob_write"),
                    CallRecord(w, unbound, tag, img,
                               FALSE, FALSE, textureID, format, index, "oob_write")}

\* the CreateGLTexture calls of PrepareScene, in order, stopping at the
\* first one whose behaviour is undefined
RECURSIVE RunLoads(_, _, _)
RunLoads(w, reqs, done) ==
    IF reqs = <<>>
    THEN {[w |-> w, calls |-> done, ub |-> NoUB]}
    ELSE UNION {IF o.ub # NoUB
                THEN {[w |-> o.w, calls |-> Append(done, o.call), ub |-> o.ub]}
                ELSE RunLoads(o.w, Tail(reqs), Append(done, o.call))
                : o \in CreateGLTexture(w, Head(reqs)[1], Head(reqs)[2])}

\* BindGLTextures: bind slot i on texture unit i
RECURSIVE BindLoop(_, _, _)
BindLoop(w, g, i) ==
    IF i < w.count
    THEN BindLoop(w, glBindTexture(glActiveTexture(g, i), w.ids[i].ID), i + 1)
    ELSE g

BindGLTextures(w) ==
    [w |-> [w EXCEPT !.gl = BindLoop(w, w.gl, 0)],
     units |-> [i \in 1..w.count |-> i - 1]]

\* DestroyGLTextures: one glGenTextures(1, &m_textureIDs[i].ID) per used slot
RECURSIVE DestroyLoop(_, _)
DestroyLoop(w, i) ==
    IF i < w.count
    THEN LET g == glGenTextures(w.gl)
         IN DestroyLoop([w EXCEPT !.gl = g, !.ids[i].ID = g.gen], i + 1)
    ELSE w

\* FindTextureID / FindTextureSlot: linear search from index 0
RECURSIVE FindTextureIndex(_, _, _, _)
FindTextureIndex(count, ids, tag, index) ==
    IF index < count
    THEN IF ids[index].tag = tag THEN index
         ELSE FindTextureIndex(count, ids, tag, index + 1)
    ELSE -1

FindTextureSlot_FromOne(count, ids, tag) == FindTextureIndex(count, ids, tag, 1)

FindTextureSlot(count, ids, tag) == FindTextureIndex(count, ids, tag, 0)

RECURSIVE FindTextureIDFrom(_, _, _, _)
FindTextureIDFrom(count, ids, tag, index) ==
    IF index < count
    THEN IF ids[index].tag = tag THEN ids[index].ID
         ELSE FindTextureIDFrom(count, ids, tag, index + 1)
    ELSE -1

FindTextureID(count, ids, tag) == FindTextureIDFrom(count, ids, tag, 0)

\* ---- materials -----------------------------------------------------------
cementMaterial == [diffuseColor |-> <<5000, 5000, 5000>>,
                   specularColor |-> <<4000, 4000, 4000>>,
                   shininess |-> 5000, tag |-> "cement"]

plasticMaterial == [diffuseColor |-> <<10000, 10000, 10000>>,
                    specularColor |-> <<2000, 2000, 2000>>,
                    shininess |-> 20000, tag |-> "plastic"]

DefineObjectMaterials(materials) ==
    Append(Append(materials, cementMaterial), plasticMaterial)

\* the values an OBJECT_MATERIAL local may hold before anything is assigned
UninitMaterials ==
    {[diffuseColor |-> <<0, 0, 0>>, specularColor |-> <<0, 0, 0>>,
      shininess |-> 0, tag |-> ""],
     [diffuseColor |-> <<-4316, -4316, -4316>>,
      specularColor |-> <<-4316, -4316, -4316>>,
      shininess |-> -4316, tag |-> ""]}

RECURSIVE FindMaterialFrom(_, _, _, _)
FindMaterialFrom(materials, tag, material, index) ==
    IF index <= Len(materials)
    THEN IF materials[index].tag = tag
         THEN [material EXCEPT
                 !.diffuseColor = materials[index].diffuseColor,
                 !.specularColor = materials[index].specularColor,
                 !.shininess = materials[index].shininess]
         ELSE FindMaterialFrom(materials, tag, material, index + 1)
    ELSE material

\* FindMaterial(tag, material): the return value and the output record
FindMaterial(materials, tag, material) ==
    IF Len(materials) = 0
    THEN [ret |-> FALSE, material |-> material]
    ELSE [ret |-> TRUE,
          material |-> FindMaterialFrom(materials, tag, material, 1)]

\* ---- the shader-uniform interface ----------------------------------------
Plain(name) == [base |-> name, idx |-> -1, field |-> ""]
Member(base, field) == [base |-> base, idx |-> -1, field |-> field]
PointLight(i, field) == [base |-> "pointLights", idx |-> i, field |-> field]

g_ModelName == Plain("model")
g_ColorValueName == Plain("objectColor")
g_TextureValueName == Plain("objectTexture")
g_UseTextureName == Plain("bUseTexture")
g_UseLightingName == Plain("bUseLighting")

SetUniform(name, val) == [op |-> "uniform", name |-> name, val |-> val]
DrawMesh(mesh) == [op |-> "draw", name |-> Plain(mesh), val |-> <<>>]
NullDeref == [op |-> "null_deref", name |-> Plain("m_pShaderManager"), val |-> <<>>]

\* default arguments declared with the class
DefaultOffset == <<0, 0, 0>>
DefaultKeyScale == <<3000, 1000, 3000>>

\* the model matrix is translation * rotationZ * rotationY * rotationX * scale;
\* it is kept as the factors it is built from
SetTransformationsOffset(scaleXYZ, X, Y, Z, positionXYZ, offset) ==
    IF NULL # m_pShaderManager
    THEN << SetUniform(g_ModelName,
                <<scaleXYZ[1], scaleXYZ[2], scaleXYZ[3], X, Y, Z,
                  positionXYZ[1] + offset[1], positionXYZ[2] + offset[2],
                  positionXYZ[3] + offset[3]>>) >>
    ELSE <<>>

SetTransformations(scaleXYZ, X, Y, Z, positionXYZ) ==
    SetTransformationsOffset(scaleXYZ, X, Y, Z, positionXYZ, DefaultOffset)

SetShaderColor(r, g, b, a) ==
    IF NULL # m_pShaderManager
    THEN << SetUniform(g_UseTextureName, <<0>>),
            SetUniform(g_ColorValueName, <<r, g, b, a>>) >>
    ELSE <<>>

SetShaderTexture(textureTag) ==
    IF NULL # m_pShaderManager
    THEN << SetUniform(g_UseTextureName, <<1>>),
            SetUniform(g_TextureValueName,
                <<FindTextureSlot(m_loadedTextures, m_textureIDs, textureTag)>>) >>
    ELSE <<>>

SetTextureUVScale(u, v) ==
    IF NULL # m_pShaderManager
    THEN << SetUniform(Plain("UVscale"), <<u, v>>) >>
    ELSE <<>>

\* uninit: what the local OBJECT_MATERIAL holds before FindMaterial is called
SetShaderMaterial(materialTag, uninit) ==
    IF Len(m_objectMaterials) > 0
    THEN LET found == FindMaterial(m_objectMaterials, materialTag, uninit)
         IN IF found.ret
            THEN IF m_pShaderManager = NULL
                 THEN << NullDeref >>
                 ELSE << SetUniform(Member("material", "diffuseColor"),
                                    found.material.diffuseColor),
                         SetUniform(Member("material", "specularColor"),
                                    found.material.specularColor),
                         SetUniform(Member("material", "shininess"),
                                    <<found.material.shininess>>) >>
            ELSE <<>>
    ELSE <<>>

LightFields == {"position", "ambient", "diffuse", "specular", "constant",
                "linear", "quadratic", "bActive"}

\* point light directly above the computer
PointLight0Writes ==
    << SetUniform(PointLight(0, "position"), <<0, 95000, 25000>>),
       SetUniform(PointLight(0, "ambient"), <<1500, 1500, 1500>>),
       SetUniform(PointLight(0, "diffuse"), <<6000, 6000, 6000>>),
       SetUniform(PointLight(0, "specular"), <<5000, 5000, 5000>>),
       SetUniform(PointLight(0, "constant"), <<10000>>),
       SetUniform(PointLight(0, "linear"), <<450>>),
       SetUniform(PointLight(0, "quadratic"), <<75>>),
       SetUniform(PointLight(0, "bActive"), <<1>>) >>

PointLight1Writes_AsLight2 ==
    << SetUniform(PointLight(1, "position"), <<-12500, 35000, 30000>>),
       SetUniform(PointLight(1, "ambient"), <<500, 1000, 2000>>),
       SetUniform(PointLight(1, "diffuse"), <<2000, 4000, 8000>>),
       SetUniform(PointLight(1, "specular"), <<1000, 2000, 4000>>),
       SetUniform(PointLight(1, "constant"), <<10000>>),
       SetUniform(PointLight(1, "linear"), <<2200>>),
       SetUniform(PointLight(1, "quadratic"), <<2000>>),
       SetUniform(PointLight(2, "bActive"), <<1>>) >>

\* CRT screen glow
PointLight1Writes ==
    << SetUniform(PointLight(1, "position"), <<-12500, 35000, 30000>>),
       SetUniform(PointLight(1, "ambient"), <<500, 1000, 2000>>),
       SetUniform(PointLight(1, "diffuse"), <<2000, 4000, 8000>>),
       SetUniform(PointLight(1, "specular"), <<1000, 2000, 4000>>),
       SetUniform(PointLight(1, "constant"), <<10000>>),
       SetUniform(PointLight(1, "linear"), <<2200>>),
       SetUniform(PointLight(1, "quadratic"), <<2000>>),
       SetUniform(PointLight(1, "bActive"), <<1>>) >>

SetupSceneLights ==
    IF m_pShaderManager = NULL
    THEN << NullDeref >>
    ELSE << SetUniform(g_UseLightingName, <<1>>) >>
         \o PointLight0Writes
         \o PointLight1Writes
         \o << SetUniform(g_UseLightingName, <<1>>) >>

HitsUB(log) == \E i \in 1..Len(log) : log[i].op = "null_deref"

\* the log up to and including the first dereference of a NULL shader manager
UntilUB(log) ==
    IF HitsUB(log)
    THEN LET first == CHOOSE i \in 1..Len(log) :
                        /\ log[i].op = "null_deref"
                        /\ \A j \in 1..(i - 1) : log[j].op # "null_deref"
         IN SubSeq(log, 1, first)
    ELSE log

\* the uniforms after the writes of a log: the last write to a name wins
ApplyLog(u, log) ==
    LET written == {log[i].name : i \in {j \in 1..Len(log) : log[j].op = "uniform"}}
        last(n) == CHOOSE i \in 1..Len(log) :
                     /\ log[i].op = "uniform" /\ log[i].name = n
                     /\ \A j \in (i + 1)..Len(log) :
                          ~(log[j].op = "uniform" /\ log[j].name = n)
    IN [n \in DOMAIN u \cup written |->
          IF n \in written THEN log[last(n)].val ELSE u[n]]

\* ---- the primitives of the scene ------------------------------------------
DrawMainBody(m) ==
    SetTransformations(<<70000, 50000, 50000>>, 0, 0, 0, <<0, 35000, 0>>)
    \o SetShaderTexture("ComputerCase")
    \o SetShaderMaterial("plastic", m)
    \o SetTextureUVScale(20000, 20000)
    \o << DrawMesh("box") >>

DrawBackBase(m) ==
    SetTransformations(<<70000, 25000, 30000>>, 0, 0, 0, <<0, 12500, -10000>>)
    \o SetShaderTexture("ComputerCase")
    \o SetShaderMaterial("plastic", m)
    \o SetTextureUVScale(20000, 20000)
    \o << DrawMesh("box") >>

\* one textured part of the case: transform, texture, material, UV scale, draw
CasePart(scaleXYZ, X, Y, Z, positionXYZ, mesh, m) ==
    SetTransformations(scaleXYZ, X, Y, Z, positionXYZ)
    \o SetShaderTexture("ComputerCase")
    \o SetShaderMaterial("plastic", m)
    \o SetTextureUVScale(20000, 20000)
    \o << DrawMesh(mesh) >>

\* one flat-coloured box: transform, colour, draw
ColorBox(scaleXYZ, X, Y, Z, positionXYZ, r, g, b, a) ==
    SetTransformations(scaleXYZ, X, Y, Z, positionXYZ)
    \o SetShaderColor(r, g, b, a)
    \o << DrawMesh("box") >>

DrawFeet(m) ==
    CasePart(<<10000, 10000, 2000>>, 0, 0, 0, <<-30000, 5000, 6000>>, "box", m)
    \o CasePart(<<10000, 10000, 5000>>, -900000, 900000, 0,
                <<-30000, 2500, 7000>>, "prism", m)
    \o CasePart(<<10000, 10000, 2000>>, 0, 0, 0, <<30000, 5000, 6000>>, "box", m)
    \o CasePart(<<10000, 10000, 5000>>, -900000, 900000, 0,
                <<30000, 2500, 7000>>, "prism", m)

DrawFloppyDrive(m) ==
    CasePart(<<20000, 25000, 2000>>, 0, 0, 0, <<20000, 35000, 26000>>, "box", m)
    \o ColorBox(<<15000, 1000, 500>>, 0, 0, 0, <<20000, 44000, 27000>>,
                1000, 1000, 1000, 10000)
    \o ColorBox(<<15000, 1000, 500>>, 0, 0, 0, <<20000, 28000, 27000>>,
                1000, 1000, 1000, 10000)

DrawCRTPanel_NoDraw ==
    SetTransformations(<<35000, 28000, 2000>>, 0, 0, 0, <<-12500, 35000, 26000>>)
    \o SetShaderTexture("CRTScreen")
    \o SetTextureUVScale(10000, 10000)

DrawCRTPanel ==
    SetTransformations(<<35000, 28000, 2000>>, 0, 0, 0, <<-12500, 35000, 26000>>)
    \o SetShaderTexture("CRTScreen")
    \o SetTextureUVScale(10000, 10000)
    \o << DrawMesh("box") >>

DrawProFile(m) ==
    LET footScale == <<3000, 2000, 3000>>
        baseY == 61000
        xInset == 27500
        zInset == 15000
    IN CasePart(<<65000, 10000, 40000>>, 0, 0, 0, <<0, 67000, 0>>, "box", m)
       \o ColorBox(footScale, 0, 0, 0, <<-xInset, baseY, -zInset>>, 500, 500, 500, 10000)
       \o ColorBox(footScale, 0, 0, 0, <<xInset, baseY, -zInset>>, 500, 500, 500, 10000)
       \o ColorBox(footScale, 0, 0, 0, <<-xInset, baseY, zInset>>, 500, 500, 500, 10000)
       \o ColorBox(footScale, 0, 0, 0, <<xInset, baseY, zInset>>, 500, 500, 500, 10000)

DrawMouse ==
    LET slopeDegrees == 70000
    IN ColorBox(<<15000, 2000, 25000>>, 0, 0, 0, <<60000, 1000, 40000>>,
                9600, 9100, 7600, 10000)
       \o ColorBox(<<15000, 5000, 25000>>, slopeDegrees, 0, 0, <<60000, 1000, 40000>>,
                   9600, 9100, 7600, 10000)
       \o ColorBox(<<12000, 500, 5000>>, slopeDegrees, 0, 0, <<60000, 4500, 33000>>,
                   2000, 2000, 2000, 10000)

DrawMouseCable ==
    SetShaderColor(1000, 1000, 1000, 10000)
    \o SetTransformations(<<500, 75000, 500>>, 900000, 0, 2500, <<60000, 0, -30000>>)
    \o << DrawMesh("cylinder") >>
    \o SetTransformations(<<500, 10000, 500>>, 900000, 0, 2500, <<12500, 0, -30000>>)
    \o << DrawMesh("cylinder") >>
    \o SetTransformations(<<500, 48500, 500>>, 0, 0, 900000, <<60500, 0, -30000>>)
    \o << DrawMesh("cylinder") >>

DrawKey_NoTransform(x, y, z, slopeDegrees, keyScale, m) ==
    SetShaderMaterial("plastic", m)
    \o SetShaderColor(2000, 2000, 2000, 10000)
    \o << DrawMesh("box") >>

DrawKey(x, y, z, slopeDegrees, keyScale, m) ==
    SetTransformations(keyScale, slopeDegrees, 0, 0, <<x, y, z>>)
    \o SetShaderMaterial("plastic", m)
    \o SetShaderColor(2000, 2000, 2000, 10000)
    \o << DrawMesh("box") >>

\* the keys of the special bottom row, from key i on
RECURSIVE SpecialRow(_, _, _, _, _, _, _, _)
SpecialRow(i, widths, xCursor, spacing, customRowY, customZ, slopeDegrees, m) ==
    IF i <= Len(widths)
    THEN LET keyWidth == widths[i]
         IN DrawKey(xCursor + keyWidth \div 2, customRowY, customZ, slopeDegrees,
                    <<keyWidth, 1000, 3000>>, m)
            \o SpecialRow(i + 1, widths, xCursor + keyWidth + spacing, spacing,
                          customRowY, customZ, slopeDegrees, m)
    ELSE <<>>

DrawKeyboard(m) ==
    LET slopeDegrees == 70000
        rows == 5
        cols == 14
        keySpacingX == 3500
        keySpacingZ == 3500
        gridStartX == (0 - ((cols - 1) * keySpacingX)) \div 2
        gridStartZ == 53000
        y == 5500
        adjustedY(row) == y + (IF row = 3 THEN 1000 ELSE 0)
                            + (IF row = 2 THEN 600 ELSE 0)
                            + (IF row = 1 THEN 200 ELSE 0)
                            - (IF row = 0 THEN 200 ELSE 0)
        RegularRow(row) ==
            Flatten([c \in 1..cols |->
                DrawKey(gridStartX + (c - 1) * keySpacingX, adjustedY(row),
                        gridStartZ - row * keySpacingZ, slopeDegrees,
                        DefaultKeyScale, m)])
        widths == <<3000, 6000, 18000, 6000, 3000>>
        spacing == 500
        totalRowWidth == widths[1] + widths[2] + widths[3] + widths[4] + widths[5]
                         + spacing * 4
        Row(row) ==
            IF row < 4
            THEN RegularRow(row)
            ELSE SpecialRow(1, widths, (0 - totalRowWidth) \div 2, spacing,
                            y - 500, gridStartZ + (keySpacingZ * 12) \div 10,
                            70000, m)
    IN SetTransformations(<<50000, 5000, 20000>>, 0, 0, 0, <<0, 1000, 50000>>)
       \o SetShaderMaterial("plastic", m)
       \o SetShaderColor(9600, 9100, 7600, 10000)
       \o << DrawMesh("box") >>
       \o SetTransformations(<<50000, 4000, 20000>>, slopeDegrees, 0, 0, <<0, 3500, 50000>>)
       \o SetShaderMaterial("plastic", m)
       \o SetShaderColor(9600, 9100, 7600, 10000)
       \o << DrawMesh("box") >>
       \o Flatten([r \in 1..rows |-> Row(r - 1)])

DrawKeyboardCable ==
    SetShaderColor(1000, 1000, 1000, 10000)
    \o SetTransformations(<<500, 5000, 500>>, 900000, 0, 0, <<0, 1000, 35000>>)
    \o << DrawMesh("cylinder") >>
    \o SetTransformations(<<500, 20200, 500>>, 0, 0, 900000, <<20000, 1000, 35000>>)
    \o << DrawMesh("cylinder") >>
    \o SetTransformations(<<500, 30000, 500>>, 900000, 0, 0, <<20000, 1000, 5000>>)
    \o << DrawMesh("cylinder") >>

\* everything RenderScene asks of the shader and of the meshes, in order
RenderSceneLog(m) ==
    SetTransformations(<<200000, 10000, 100000>>, 0, 0, 0, <<0, 0, 0>>)
    \o SetShaderTexture("TableTexture")
    \o SetShaderMaterial("cement", m)
    \o << DrawMesh("plane") >>
    \o DrawMainBody(m)
    \o DrawBackBase(m)
    \o DrawFeet(m)
    \o DrawFloppyDrive(m)
    \o DrawCRTPanel
    \o DrawProFile(m)
    \o DrawMouse
    \o DrawMouseCable
    \o DrawKeyboard(m)
    \o DrawKeyboardCable

\* ---- the state after construction -----------------------------------------
EmptyRegistry == [i \in 0..(MaxTextureSlots - 1) |-> [ID |-> 0, tag |-> ""]]
NoDestroy == [registered |-> {}, before |-> {}, after |-> {}]
NoFind == [op |-> "none", tag |-> "", ret |-> 0, found |-> FALSE,
           given |-> CHOOSE r \in UninitMaterials : r.shininess = 0,
           material |-> CHOOSE r \in UninitMaterials : r.shininess = 0]

Constructed(pShaderManager) ==
    /\ m_pShaderManager = pShaderManager
    /\ m_basicMeshes = {}
    /\ m_loadedTextures = 0
    /\ m_textureIDs = EmptyRegistry
    /\ m_objectMaterials = <<>>
    /\ gl = [textures |-> {}, gen |-> 0, active |-> 0, units |-> <<>>]
    /\ stbImages = 0
    /\ uniforms = <<>>
    /\ shaderLog = <<>>
    /\ createCalls = <<>>
    /\ bindLog = <<>>
    /\ destroyCall = NoDestroy
    /\ findCall = NoFind
    /\ lastOp = "none"
    /\ ub = NoUB
    /\ prepares = 0
    /\ failedLoads = 0
    /\ destroys = 0

Init == \E p \in {NULL, ShaderManager} : Constructed(p)

\* ---- the operations ------------------------------------------------------
AllMeshes == {"plane", "box", "prism", "cylinder"}

Failed(img) == ~img.decoded \/ img.channels \notin {3, 4}
Failures(imgs) == Cardinality({i \in 1..Len(imgs) : Failed(imgs[i])})

\* PrepareScene, explored up to maxPrepares invocations and maxFailed failed
\* loads, with stbi_load handing back one of images for each file
PrepareSceneWithin(maxPrepares, maxFailed, images) ==
    /\ ub = NoUB
    /\ prepares < maxPrepares
    /\ prepares' = prepares + 1
    /\ lastOp' = "PrepareScene"
    /\ m_objectMaterials' = DefineObjectMaterials(m_objectMaterials)
    /\ shaderLog' = UntilUB(SetupSceneLights)
    /\ uniforms' = ApplyLog(uniforms, shaderLog')
    /\ IF HitsUB(shaderLog')
       THEN /\ ub' = "null_deref"
            /\ createCalls' = <<>>
            /\ bindLog' = <<>>
            /\ UNCHANGED <<m_basicMeshes, m_loadedTextures, m_textureIDs,
                           gl, stbImages, failedLoads>>
       ELSE /\ m_basicMeshes' = m_basicMeshes \cup AllMeshes
            /\ \E i1 \in images, i2 \in images, i3 \in images :
                       /\ failedLoads + Failures(<<i1, i2, i3>>) <= maxFailed
                       /\ failedLoads' = failedLoads + Failures(<<i1, i2, i3>>)
                       /\ \E out \in RunLoads(World,
                                       << <<"ComputerCase", i1>>,
                                          <<"CRTScreen", i2>>,
                                          <<"TableTexture", i3>> >>, <<>>) :
                            LET b == IF out.ub = NoUB
                                     THEN BindGLTextures(out.w)
                                     ELSE [w |-> out.w, units |-> <<>>]
                            IN /\ m_loadedTextures' = b.w.count
                               /\ m_textureIDs' = b.w.ids
                               /\ gl' = b.w.gl
                               /\ stbImages' = b.w.images
                               /\ createCalls' = out.calls
                               /\ bindLog' = b.units
                               /\ ub' = out.ub
    /\ destroyCall' = NoDestroy
    /\ UNCHANGED <<m_pShaderManager, findCall, destroys>>

\* one image of each fate: not decoded, decoded and rejected, decoded and loaded
SceneImages == {NoImage, [decoded |-> TRUE, channels |-> 2],
                [decoded |-> TRUE, channels |-> 3]}

PrepareScene == PrepareSceneWithin(MaxPrepare, MaxFailedLoads, SceneImages)

RenderScene ==
    /\ ub = NoUB
    /\ lastOp' = "RenderScene"
    /\ \E m \in UninitMaterials :
         shaderLog' = UntilUB(RenderSceneLog(m))
    /\ uniforms' = ApplyLog(uniforms, shaderLog')
    /\ ub' = IF HitsUB(shaderLog') THEN "null_deref" ELSE NoUB
    /\ createCalls' = <<>>
    /\ bindLog' = <<>>
    /\ destroyCall' = NoDestroy
    /\ UNCHANGED <<m_pShaderManager, m_basicMeshes, m_loadedTextures,
                   m_textureIDs, m_objectMaterials, gl, stbImages, findCall,
                   prepares, failedLoads, destroys>>

DestroyGLTextures ==
    /\ ub = NoUB
    /\ destroys < MaxDestroy
    /\ destroys' = destroys + 1
    /\ lastOp' = "DestroyGLTextures"
    /\ LET w == DestroyLoop(World, 0)
       IN /\ m_textureIDs' = w.ids
          /\ gl' = w.gl
          /\ destroyCall' =
               [registered |-> {m_textureIDs[i].ID : i \in 0..(m_loadedTextures - 1)},
                before |-> gl.textures, after |-> w.gl.textures]
    /\ shaderLog' = <<>>
    /\ createCalls' = <<>>
    /\ bindLog' = <<>>
    /\ UNCHANGED <<m_pShaderManager, m_basicMeshes, m_loadedTextures,
                   m_objectMaterials, stbImages, uniforms, findCall, ub,
                   prepares, failedLoads>>

Next == PrepareScene \/ RenderScene \/ DestroyGLTextures

Spec == Init /\ [][Next]_vars

\* ---- PrepareScene invoked again and again --------------------------------
PrepareSceneAgain == PrepareSceneWithin(MaxRepeat, MaxFailedLoads, Images)

NextRepeat == PrepareSceneAgain

SpecRepeat == Init /\ [][NextRepeat]_vars

\* ---- the lookups on their own --------------------------------------------
LookupTextureTags == TextureTags \cup {"Unregistered"}
LookupMaterialTags == {"cement", "plastic", "glass"}

RECURSIVE MaterialsAfter(_)
MaterialsAfter(k) ==
    IF k = 0 THEN <<>> ELSE DefineObjectMaterials(MaterialsAfter(k - 1))

\* PrepareScene loads the three tags in this order
TagOrder(tag) ==
    IF tag = "ComputerCase" THEN 1 ELSE IF tag = "CRTScreen" THEN 2 ELSE 3

\* the fewest PrepareScene invocations that leave the tags in this order, when
\* the first image decoded was rejected (leak = 1) or none was (leak = 0)
MinPrepares(n, tags, leak) ==
    (IF n = 0 THEN 0
     ELSE 1 + Cardinality({i \in 1..(n - 1) :
                             TagOrder(tags[i]) <= TagOrder(tags[i - 1])}))
    + (IF leak = 1 /\ (n = 0 \/ tags[0] = "ComputerCase") THEN 1 ELSE 0)

\* the state k invocations of PrepareScene leave behind when n of their loads
\* succeeded, with any tags, and all others failed: undecodable files, and for
\* leak = 1 a rejected image in front of the first success
InitFind ==
    \E n \in 0..MaxFindTextures, leak \in 0..1, extra \in 0..MaxFindPrepares :
      \E tags \in [0..(n - 1) -> TextureTags] :
        LET k == MinPrepares(n, tags, leak) + extra
            ids == [i \in 0..(MaxTextureSlots - 1) |->
                      IF i < n THEN [ID |-> leak + i + 1, tag |-> tags[i]]
                      ELSE [ID |-> 0, tag |-> ""]]
            loaded == [textures |-> 1..(n + leak), gen |-> n + leak, active |-> 0,
                       units |-> IF leak = 1 THEN [u \in {0} |-> 1] ELSE <<>>]
        IN /\ m_pShaderManager = ShaderManager
           /\ m_basicMeshes = IF k > 0 THEN AllMeshes ELSE {}
           /\ m_loadedTextures = n
           /\ m_textureIDs = ids
           /\ m_objectMaterials = MaterialsAfter(k)
           /\ gl = BindLoop([count |-> n, ids |-> ids], loaded, 0)
           /\ stbImages = leak
           /\ uniforms = IF k > 0 THEN ApplyLog(<<>>, SetupSceneLights) ELSE <<>>
           /\ shaderLog = <<>>
           /\ createCalls = <<>>
           /\ bindLog = <<>>
           /\ destroyCall = NoDestroy
           /\ findCall = NoFind
           /\ lastOp = "none"
           /\ ub = NoUB
           /\ prepares = k
           /\ failedLoads = 3 * k - n
           /\ destroys = 0

FindUnchanged ==
    UNCHANGED <<m_pShaderManager, m_basicMeshes, m_loadedTextures, m_textureIDs,
                m_objectMaterials, gl, stbImages, uniforms, shaderLog,
                createCalls, bindLog, destroyCall, ub, prepares, failedLoads,
                destroys>>

CallFindTextureSlot ==
    /\ \E tag \in LookupTextureTags :
         findCall' = [NoFind EXCEPT !.op = "FindTextureSlot", !.tag = tag,
                        !.ret = FindTextureSlot(m_loadedTextures, m_textureIDs, tag)]
    /\ lastOp' = "FindTextureSlot"
    /\ FindUnchanged

CallFindTextureID ==
    /\ \E tag \in LookupTextureTags :
         findCall' = [NoFind EXCEPT !.op = "FindTextureID", !.tag = tag,
                        !.ret = FindTextureID(m_loadedTextures, m_textureIDs, tag)]
    /\ lastOp' = "FindTextureID"
    /\ FindUnchanged

CallFindMaterial ==
    /\ \E tag \in LookupMaterialTags, given \in UninitMaterials :
         LET r == FindMaterial(m_objectMaterials, tag, given)
         IN findCall' = [NoFind EXCEPT !.op = "FindMaterial", !.tag = tag,
                           !.found = r.ret, !.given = given,
                           !.material = r.material]
    /\ lastOp' = "FindMaterial"
    /\ FindUnchanged

NextFind == CallFindTextureSlot \/ CallFindTextureID \/ CallFindMaterial

SpecFind == InitFind /\ [][NextFind]_vars

\* ---- properties -----------------------------------------------------------
Calls == {createCalls[k] : k \in 1..Len(createCalls)}

\* C1: a CreateGLTexture call that returns true has grown m_loadedTextures by
\* one and stored the new ID and the tag at the index of the previous count,
\* earlier entries untouched; one that returns false has left m_loadedTextures
\* and m_textureIDs as they were.
C1_LoadRegistersOrLeavesRegistry ==
    \A c \in Calls :
      c.returned =>
        /\ c.ret =>
             /\ c.post.count = c.pre.count + 1
             /\ c.pre.count \in DOMAIN c.post.ids
             /\ c.post.ids[c.pre.count] = [ID |-> c.gen, tag |-> c.tag]
             /\ \A i \in DOMAIN c.pre.ids :
                  i < c.pre.count => c.post.ids[i] = c.pre.ids[i]
        /\ ~c.ret =>
             /\ c.post.count = c.pre.count
             /\ c.post.ids = c.pre.ids

\* C2: CreateGLTexture returns true exactly when the image was decoded and has
\* 3 or 4 channels; it returns false when decoding fails and for every decoded
\* image with another channel count.
C2_TrueIffDecodedRGBorRGBA ==
    \A c \in Calls :
      c.returned => (c.ret <=> (c.decoded /\ c.channels \in {3, 4}))

C2_Witness ==
    /\ \E c \in Calls : c.returned /\ c.ret /\ c.channels = 4
    /\ \E c \in Calls : c.returned /\ ~c.ret /\ c.decoded /\ c.channels \in {1, 2}

Repeat(mesh, n) == [i \in 1..n |-> mesh]

ExpectedDraws ==
    << "plane" >>
    \o << "box" >>                                   \* DrawMainBody
    \o << "box" >>                                   \* DrawBackBase
    \o << "box", "prism", "box", "prism" >>          \* DrawFeet
    \o Repeat("box", 3)                              \* DrawFloppyDrive
    \o << "box" >>                                   \* DrawCRTPanel
    \o Repeat("box", 5)                              \* DrawProFile
    \o Repeat("box", 3)                              \* DrawMouse
    \o Repeat("cylinder", 3)                         \* DrawMouseCable
    \o Repeat("box", 2 + 4 * 14 + 5)                 \* DrawKeyboard
    \o Repeat("cylinder", 3)                         \* DrawKeyboardCable

DrawsOf(log) ==
    LET draws == SelectEvents(log, "draw")
    IN [i \in 1..Len(draws) |-> draws[i].name.base]

CountOf(seq, x) == Cardinality({i \in 1..Len(seq) : seq[i] = x})

\* C3: every RenderScene issues the same ordered 88 draw calls (1 plane, 79
\* boxes, 2 prisms, 6 cylinders), whatever earlier frames left behind and
\* whatever textures and materials are registered.
C3_SameDrawsEveryFrame ==
    lastOp = "RenderScene" =>
      /\ DrawsOf(shaderLog) = ExpectedDraws
      /\ Len(DrawsOf(shaderLog)) = 88
      /\ CountOf(DrawsOf(shaderLog), "plane") = 1
      /\ CountOf(DrawsOf(shaderLog), "box") = 79
      /\ CountOf(DrawsOf(shaderLog), "prism") = 2
      /\ CountOf(DrawsOf(shaderLog), "cylinder") = 6

\* a frame drawn after a texture load failed, over uniforms of an earlier frame
C3_Witness ==
    /\ lastOp = "RenderScene"
    /\ failedLoads > 0
    /\ m_loadedTextures > 0
    /\ Len(m_objectMaterials) > 0
    /\ Len(SelectEvents(shaderLog, "draw")) > 0

\* C4: after DestroyGLTextures none of the textures registered in the used
\* slots is still allocated, and no new texture object was allocated.
C4_DestroyFreesRegistered ==
    lastOp = "DestroyGLTextures" =>
      /\ destroyCall.registered \cap gl.textures = {}
      /\ gl.textures \subseteq destroyCall.before

HasTag(materials, tag) == \E i \in 1..Len(materials) : materials[i].tag = tag

FirstWithTag(materials, tag) ==
    CHOOSE i \in 1..Len(materials) :
      /\ materials[i].tag = tag
      /\ \A j \in 1..(i - 1) : materials[j].tag # tag

\* C5: FindMaterial returns true exactly when an entry carries the tag, and
\* then the output holds the first such entry's colours and shininess; else it
\* returns false and leaves the output record unmodified.
C5_FindMaterialFindsTag ==
    findCall.op = "FindMaterial" =>
      /\ findCall.found <=> HasTag(m_objectMaterials, findCall.tag)
      /\ HasTag(m_objectMaterials, findCall.tag) =>
           LET e == m_objectMaterials[FirstWithTag(m_objectMaterials, findCall.tag)]
           IN /\ findCall.material.diffuseColor = e.diffuseColor
              /\ findCall.material.specularColor = e.specularColor
              /\ findCall.material.shininess = e.shininess
      /\ ~HasTag(m_objectMaterials, findCall.tag) =>
           findCall.material = findCall.given

Matches(count, ids, tag) == {i \in 0..(count - 1) : ids[i].tag = tag}

SmallestMatch(count, ids, tag) ==
    IF Matches(count, ids, tag) = {} THEN -1
    ELSE CHOOSE i \in Matches(count, ids, tag) :
           \A j \in Matches(count, ids, tag) : i <= j

\* C6: FindTextureSlot returns the smallest index below m_loadedTextures whose
\* tag matches, or -1; FindTextureID returns the ID stored at that index, or
\* -1; neither changes the registry.
C6_LookupsFindFirstMatch ==
    [][ /\ lastOp' = "FindTextureSlot" =>
             /\ findCall'.ret =
                  SmallestMatch(m_loadedTextures, m_textureIDs, findCall'.tag)
             /\ UNCHANGED <<m_loadedTextures, m_textureIDs>>
        /\ lastOp' = "FindTextureID" =>
             /\ findCall'.ret =
                  (LET slot == SmallestMatch(m_loadedTextures, m_textureIDs,
                                             findCall'.tag)
                   IN IF slot = -1 THEN -1 ELSE m_textureIDs[slot].ID)
             /\ UNCHANGED <<m_loadedTextures, m_textureIDs>> ]_vars

\* a lookup of a tag registered twice, answered with the first of the two slots
C6_Witness ==
    /\ lastOp = "FindTextureSlot"
    /\ Cardinality(Matches(m_loadedTextures, m_textureIDs, findCall.tag)) > 1
    /\ findCall.ret >= 0

WrittenIn(log, name) ==
    \E i \in 1..Len(log) : log[i].op = "uniform" /\ log[i].name = name

\* C7: after SetupSceneLights returns, bUseLighting is true, point lights 0
\* and 1 are active with all their uniforms written, and it wrote no uniform
\* of a point light with another index.
C7_TwoPointLights ==
    (lastOp = "PrepareScene" /\ ~HitsUB(shaderLog)) =>
      /\ g_UseLightingName \in DOMAIN uniforms
      /\ uniforms[g_UseLightingName] = <<1>>
      /\ \A i \in {0, 1} :
           /\ \A f \in LightFields : WrittenIn(shaderLog, PointLight(i, f))
           /\ uniforms[PointLight(i, "bActive")] = <<1>>
      /\ \A k \in 1..Len(shaderLog) :
           shaderLog[k].name.base = "pointLights" => shaderLog[k].name.idx \in {0, 1}

\* SetupSceneLights run a second time, after a frame was drawn
C7_Witness ==
    /\ lastOp = "PrepareScene"
    /\ ~HitsUB(shaderLog)
    /\ prepares > 1
    /\ g_ModelName \in DOMAIN uniforms
    /\ Len(shaderLog) > 0

\* C8: a CreateGLTexture call that returns false leaves no texture it
\* generated allocated, no texture of its own bound to GL_TEXTURE_2D, and no
\* decoded image buffer unfreed.
C8_FailedLoadLeavesNothing ==
    \A c \in Calls :
      (c.returned /\ ~c.ret) =>
        /\ c.gen \notin c.post.textures
        /\ c.post.textures = c.pre.textures
        /\ c.post.bound = c.pre.bound
        /\ c.post.images = c.pre.images

\* C9: m_loadedTextures never exceeds 16, every store CreateGLTexture makes to
\* m_textureIDs is at an index in 0..15, and every texture unit BindGLTextures
\* activates is one of GL_TEXTURE0..GL_TEXTURE15.
C9_AtMostSixteenSlots ==
    /\ m_loadedTextures <= 16
    /\ \A c \in Calls : c.writeIndex \in -1..15
    /\ \A k \in 1..Len(bindLog) : bindLog[k] \in 0..15

\* every draw of the log has a write of the model matrix after the draw before
\* it (or after the start of the log, for the first draw)
EachDrawHasOwnTransform(log) ==
    \A i \in 1..Len(log) :
      log[i].op = "draw" =>
        \E j \in 1..(i - 1) :
          /\ log[j].op = "uniform"
          /\ log[j].name = g_ModelName
          /\ \A k \in (j + 1)..(i - 1) : log[k].op # "draw"

\* C10 as stated: in every RenderScene invocation the model matrix is written
\* before the first draw and between any two consecutive draws.
C10_Original ==
    lastOp = "RenderScene" => EachDrawHasOwnTransform(shaderLog)

\* C10, amended: in every RenderScene invocation of a SceneManager whose
\* shader manager is not NULL, the model matrix is written before the first
\* draw and between any two consecutive draws.
C10_TransformBeforeEachDraw ==
    (lastOp = "RenderScene" /\ m_pShaderManager # NULL) =>
      EachDrawHasOwnTransform(shaderLog)

C10_Witness ==
    /\ lastOp = "RenderScene"
    /\ m_pShaderManager # NULL
    /\ Len(SelectEvents(shaderLog, "draw")) = 88
    /\ prepares > 0

\* the value a uniform holds when event i of the log is issued: the last write
\* before i in the log, or <<>> when the log has none before i
WrittenBefore(log, i, name) ==
    \E j \in 1..(i - 1) : log[j].op = "uniform" /\ log[j].name = name

ValueBefore(log, i, name) ==
    IF WrittenBefore(log, i, name)
    THEN log[CHOOSE j \in 1..(i - 1) :
               /\ log[j].op = "uniform" /\ log[j].name = name
               /\ \A k \in (j + 1)..(i - 1) :
                    ~(log[k].op = "uniform" /\ log[k].name = name)].val
    ELSE <<>>

\* C11: every draw of RenderScene issued with bUseTexture true has the sampler
\* slot and the UVscale uniform written earlier in the same invocation, so
\* that no textured primitive (the table plane included) is drawn with a value
\* an earlier frame left behind.
C11_TexturedDrawsSetWithinFrame ==
    lastOp = "RenderScene" =>
      \A i \in 1..Len(shaderLog) :
        (shaderLog[i].op = "draw"
           /\ ValueBefore(shaderLog, i, g_UseTextureName) = <<1>>) =>
          /\ WrittenBefore(shaderLog, i, g_TextureValueName)
          /\ WrittenBefore(shaderLog, i, Plain("UVscale"))

\* C12: a SceneManager constructed with a NULL shader manager never
\* dereferences it: every operation of PrepareScene and RenderScene that
\* writes a uniform checks m_pShaderManager first and writes nothing.
C12_NullShaderManagerNeverDereferenced ==
    m_pShaderManager = NULL =>
      /\ ub # "null_deref"
      /\ ~HitsUB(shaderLog)
      /\ SelectEvents(shaderLog, "uniform") = <<>>
      /\ uniforms = <<>>

====
